---- MODULE Spec2Model ----
(***************************************************************************)
(* A model of dxf_generator.py: the DXFGenerator facade over a CAD         *)
(* document library (ezdxf) and a plotting library (matplotlib).           *)
(*                                                                         *)
(* Representation.                                                         *)
(*  - A Python str is a sequence of one-character strings.                 *)
(*  - A point is a pair <<x, y>> of integers.                              *)
(*  - The only non-integer quantity the program computes from integer      *)
(*    arguments is the label offset spacing * 0.05 (= spacing / 20), so a  *)
(*    text position is held in twentieths of a drawing unit.               *)
(*  - A text height is held in tenths (0.8 is 8) and a font size in        *)
(*    hundredths (height * 2.4 is height10 * 24).                          *)
(*  - A call into one of the two libraries either returns or raises; which *)
(*    of the two happens is an input of the action (outcome).              *)
(***************************************************************************)
EXTENDS Integers, Sequences, FiniteSets, TLC

VARIABLES
    msp,               \* self.msp: the modelspace entity list of self.doc
    drawing_elements,  \* self.drawing_elements
    pc,                \* position inside create_grid, "idle" between calls
    loc,               \* create_grid's locals x and y (iter: parity of its loop iterations)
    call,              \* the most recent call: its name and the arguments kept of it
    raised,            \* whether the most recent call raised
    clean,             \* no call has raised so far
    files,             \* the files written by the most recent save / save_png, in order
    drawn              \* the draw calls issued on the figure of the most recent save_png

vars == <<msp, drawing_elements, pc, loc, call, raised, clean, files, drawn>>

(***************************************************************************)
(* Bounds of the exploration.                                              *)
(***************************************************************************)
MaxElems == 2      \* drawing calls are made while fewer entities than this exist
MaxDim == 2        \* largest grid width and height
MaxSegs == 2       \* a file name is built from at most this many segments

\* The record lists hold at most this many entries: enough for MaxElems
\* primitives followed by the largest grid with spacing >= 1.  Only a
\* create_grid call whose loop never exits reaches it.
ElemCap == MaxElems + 2 * (MaxDim + 1) + (MaxDim + 1) * (MaxDim + 1)

(***************************************************************************)
(* ezdxf.colors constants used by the program.                             *)
(***************************************************************************)
WHITE == 7
RED == 1
GRAY == 8

Max(a, b) == IF a >= b THEN a ELSE b
Min(a, b) == IF a <= b THEN a ELSE b
Abs(a) == IF a >= 0 THEN a ELSE -a

(***************************************************************************)
(* Python str operations.                                                  *)
(***************************************************************************)
EndsWith(s, suf) ==
    /\ Len(s) >= Len(suf)
    /\ SubSeq(s, Len(s) - Len(suf) + 1, Len(s)) = suf

StartsWith(s, pre) ==
    /\ Len(s) >= Len(pre)
    /\ SubSeq(s, 1, Len(pre)) = pre

Contains(s, c) == \E i \in 1..Len(s) : s[i] = c

\* str.replace(old, new): every non-overlapping occurrence, left to right.
RECURSIVE Replace(_, _, _)
Replace(s, old, new) ==
    IF Len(s) < Len(old) THEN s
    ELSE IF SubSeq(s, 1, Len(old)) = old
         THEN new \o Replace(SubSeq(s, Len(old) + 1, Len(s)), old, new)
         ELSE <<s[1]>> \o Replace(Tail(s), old, new)

DotDxf == <<".", "d", "x", "f">>
DotPng == <<".", "p", "n", "g">>

(***************************************************************************)
(* format(x, 'g') of an integer x: six significant digits, plain decimal   *)
(* below 10^6 and scientific notation from there on.                       *)
(***************************************************************************)
Digit(d) == CASE d = 0 -> "0" [] d = 1 -> "1" [] d = 2 -> "2" [] d = 3 -> "3"
              [] d = 4 -> "4" [] d = 5 -> "5" [] d = 6 -> "6" [] d = 7 -> "7"
              [] d = 8 -> "8" [] d = 9 -> "9"

RECURSIVE Decimal(_)
Decimal(n) == IF n < 10 THEN <<Digit(n)>> ELSE Decimal(n \div 10) \o <<Digit(n % 10)>>

RECURSIVE Pow10(_)
Pow10(k) == IF k = 0 THEN 1 ELSE 10 * Pow10(k - 1)

RECURSIVE StripZeros(_)
StripZeros(s) ==
    IF Len(s) > 0 /\ s[Len(s)] = "0" THEN StripZeros(SubSeq(s, 1, Len(s) - 1)) ELSE s

\* The six-digit mantissa of n >= 10^6 (round half to even) and its exponent.
Mantissa(n) ==
    LET e == Len(Decimal(n)) - 1
        unit == Pow10(e - 5)
        q == n \div unit
        r == n % unit
        up == (2 * r > unit) \/ (2 * r = unit /\ q % 2 = 1)
        m == IF up THEN q + 1 ELSE q
    IN  IF m = 1000000 THEN [m |-> 100000, e |-> e + 1] ELSE [m |-> m, e |-> e]

FormatGNat(n) ==
    IF n < 1000000 THEN Decimal(n)
    ELSE LET me == Mantissa(n)
             ds == Decimal(me.m)
             frac == StripZeros(Tail(ds))
             ex == IF me.e < 10 THEN <<"0">> \o Decimal(me.e) ELSE Decimal(me.e)
         IN  <<ds[1]>> \o (IF frac = <<>> THEN <<>> ELSE <<".">> \o frac)
                 \o <<"e", "+">> \o ex

FormatG(x) == IF x < 0 THEN <<"-">> \o FormatGNat(-x) ELSE FormatGNat(x)

(***************************************************************************)
(* The entities the CAD library creates.  A new graphical entity has no    *)
(* colour of its own: its colour reads as 256 (by layer) until assigned.   *)
(***************************************************************************)
LineEntity(start, end) ==
    [dxftype |-> "LINE", start |-> start, end |-> end, color |-> 256]

CircleEntity(center, radius) ==
    [dxftype |-> "CIRCLE", center |-> center, radius |-> radius, color |-> 256]

LWPolylineEntity(points) ==
    [dxftype |-> "LWPOLYLINE", vertices |-> points, color |-> 256]

ArcEntity(center, radius, start_angle, end_angle) ==
    [dxftype |-> "ARC", center |-> center, radius |-> radius,
     start_angle |-> start_angle, end_angle |-> end_angle, color |-> 256]

TextEntity(text, height, insert, color) ==
    [dxftype |-> "TEXT", text |-> text, height |-> height, insert |-> insert,
     color |-> color]

SplineEntity(fit_points) ==
    [dxftype |-> "SPLINE", fit_points |-> fit_points, color |-> 256]

\* list.append / the modelspace's add, within the model's window ElemCap.
Store(seq, e) == IF Len(seq) < ElemCap THEN Append(seq, e) ELSE seq

Outcomes == {"ok", "reject", "color"}
OkOnly == {"ok"}

(***************************************************************************)
(* The three statements every primitive but add_text ends with:            *)
(*     entity = self.msp.add_xxx(...)      raises when outcome = "reject"  *)
(*     entity.dxf.color = color            raises when outcome = "color"   *)
(*     self.drawing_elements.append(record)                                *)
(***************************************************************************)
ForwardNoColor(entity, color, record, outcome) ==
    /\ msp' = IF outcome = "reject" THEN msp ELSE Store(msp, entity)
    /\ drawing_elements' = IF outcome = "ok" THEN Store(drawing_elements, record)
                           ELSE drawing_elements
    /\ raised' = (outcome # "ok")
    /\ clean' = (clean /\ outcome = "ok")

Forward(entity, color, record, outcome) ==
    /\ msp' = IF outcome = "reject" THEN msp
              ELSE Store(msp, [entity EXCEPT
                                 !.color = IF outcome = "ok" THEN color ELSE @])
    /\ drawing_elements' = IF outcome = "ok" THEN Store(drawing_elements, record)
                           ELSE drawing_elements
    /\ raised' = (outcome # "ok")
    /\ clean' = (clean /\ outcome = "ok")

\* A call that raises before it reaches either list.
RaiseEarly ==
    /\ raised' = TRUE
    /\ clean' = FALSE
    /\ UNCHANGED <<msp, drawing_elements>>

add_line(start, end, color, outcome) ==
    Forward(LineEntity(start, end), color,
            [type |-> "line", start |-> start, end |-> end, color |-> color],
            outcome)

add_circle(center, radius, color, outcome) ==
    Forward(CircleEntity(center, radius), color,
            [type |-> "circle", center |-> center, radius |-> radius,
             color |-> color],
            outcome)

RectanglePoints(corner1, corner2) ==
    LET x1 == corner1[1]
        y1 == corner1[2]
        x2 == corner2[1]
        y2 == corner2[2]
    IN  << <<x1, y1>>, <<x2, y1>>, <<x2, y2>>, <<x1, y2>>, <<x1, y1>> >>

add_rectangle(corner1, corner2, color, outcome) ==
    Forward(LWPolylineEntity(RectanglePoints(corner1, corner2)), color,
            [type |-> "rectangle", corner1 |-> corner1, corner2 |-> corner2,
             color |-> color],
            outcome)

\* points + [points[0]] when closed and points[0] != points[-1]; the caller
\* guarantees that points[0] exists when closed.
ClosedPoints(points, closed) ==
    IF closed /\ points[1] # points[Len(points)]
    THEN points \o <<points[1]>>
    ELSE points

add_polygon(points, closed, color, outcome) ==
    IF closed /\ points = <<>>
    THEN RaiseEarly                       \* points[0]: IndexError
    ELSE Forward(LWPolylineEntity(ClosedPoints(points, closed)), color,
                 [type |-> "polygon", points |-> points, closed |-> closed,
                  color |-> color],
                 outcome)

add_arc(center, radius, start_angle, end_angle, color, outcome) ==
    Forward(ArcEntity(center, radius, start_angle, end_angle), color,
            [type |-> "arc", center |-> center, radius |-> radius,
             start_angle |-> start_angle, end_angle |-> end_angle,
             color |-> color],
            outcome)

\* add_text hands the colour to the library with the other attributes: the
\* one library call either creates the coloured entity or raises.
add_text(text, position, height, color, outcome) ==
    /\ msp' = IF outcome = "ok"
              THEN Store(msp, TextEntity(text, height, position, color))
              ELSE msp
    /\ drawing_elements' =
           IF outcome = "ok"
           THEN Store(drawing_elements,
                      [type |-> "text", text |-> text, position |-> position,
                       height |-> height, color |-> color])
           ELSE drawing_elements
    /\ raised' = (outcome # "ok")
    /\ clean' = (clean /\ outcome = "ok")

add_spline(control_points, color, outcome) ==
    Forward(SplineEntity(control_points), color,
            [type |-> "spline", control_points |-> control_points,
             color |-> color],
            outcome)

(***************************************************************************)
(* create_star.  math.cos and math.sin are modelled exactly on the         *)
(* multiples of a right angle, which is where a star of one or two points  *)
(* has its vertices; angles are in degrees.                                *)
(***************************************************************************)
CosDeg(d) == CASE d % 360 = 0 -> 1 [] d % 360 = 90 -> 0
               [] d % 360 = 180 -> -1 [] d % 360 = 270 -> 0

SinDeg(d) == CASE d % 360 = 0 -> 0 [] d % 360 = 90 -> 1
               [] d % 360 = 180 -> 0 [] d % 360 = 270 -> -1

\* angle = i * angle_step - math.pi / 2, with angle_step = 2 pi / (points * 2)
StarAngle(i, points) == i * (360 \div (points * 2)) - 90

StarVertex(center, outer_radius, inner_radius, points, i) ==
    LET radius == IF i % 2 = 0 THEN outer_radius ELSE inner_radius
        angle == StarAngle(i, points)
    IN  <<center[1] + radius * CosDeg(angle), center[2] + radius * SinDeg(angle)>>

\* range(points * 2) is empty when points < 0.
star_points(center, outer_radius, inner_radius, points) ==
    [k \in 1..Max(points * 2, 0) |->
        StarVertex(center, outer_radius, inner_radius, points, k - 1)]

create_star(center, outer_radius, inner_radius, points, color, outcome) ==
    IF points = 0
    THEN RaiseEarly                       \* 2 * math.pi / 0: ZeroDivisionError
    ELSE add_polygon(star_points(center, outer_radius, inner_radius, points),
                     TRUE, color, outcome)

(***************************************************************************)
(* _color_to_matplotlib and the replay of save_png.                        *)
(***************************************************************************)
color_to_matplotlib(dxf_color) ==
    CASE dxf_color = 7 -> "black"
      [] dxf_color = 1 -> "red"
      [] dxf_color = 2 -> "orange"
      [] dxf_color = 3 -> "green"
      [] dxf_color = 4 -> "cyan"
      [] dxf_color = 5 -> "blue"
      [] dxf_color = 6 -> "magenta"
      [] dxf_color = 8 -> "black"
      [] OTHER -> "black"

Xs(points) == [i \in 1..Len(points) |-> points[i][1]]
Ys(points) == [i \in 1..Len(points) |-> points[i][2]]

\* The outline matplotlib's Polygon patch holds for the vertices xy: the
\* patch is closed (closed=True is the parameter's default, and save_png does
\* not pass it), so the first vertex is appended unless it already ends it.
PolygonPatchPath(xy) ==
    IF Len(xy) = 1 \/ (Len(xy) > 1 /\ xy[1] # xy[Len(xy)])
    THEN xy \o <<xy[1]>>
    ELSE xy

\* The anchor of the Rectangle patch: (min(x1, x2), min(y1, y2)).
RectangleXYCorner1(corner1, corner2) == corner1

RectangleXY(corner1, corner2) ==
    <<Min(corner1[1], corner2[1]), Min(corner1[2], corner2[2])>>

\* The draw calls of one iteration of save_png's loop: one, or none.
DrawCalls(element) ==
    LET color == color_to_matplotlib(element.color)
    IN  CASE element.type = "line" ->
               << [draw |-> "plot", xs |-> <<element.start[1], element.end[1]>>,
                   ys |-> <<element.start[2], element.end[2]>>, color |-> color] >>
          [] element.type = "circle" ->
               << [draw |-> "Circle", center |-> element.center,
                   radius |-> element.radius, color |-> color] >>
          [] element.type = "rectangle" ->
               << [draw |-> "Rectangle",
                   xy |-> RectangleXY(element.corner1, element.corner2),
                   width |-> Abs(element.corner2[1] - element.corner1[1]),
                   height |-> Abs(element.corner2[2] - element.corner1[2]),
                   color |-> color] >>
          [] element.type = "polygon" ->
               << [draw |-> "Polygon",
                   xy |-> ClosedPoints(element.points, element.closed),
                   path |-> PolygonPatchPath(
                                ClosedPoints(element.points, element.closed)),
                   color |-> color] >>
          [] element.type = "arc" ->
               << [draw |-> "Arc", center |-> element.center,
                   width |-> 2 * element.radius, height |-> 2 * element.radius,
                   theta1 |-> element.start_angle, theta2 |-> element.end_angle,
                   color |-> color] >>
          [] element.type = "text" ->
               LET text == element.text
                   coordinate == /\ StartsWith(text, <<"(">>)
                                 /\ Contains(text, ",")
                                 /\ EndsWith(text, <<")">>)
               IN  << [draw |-> "text", x |-> element.position[1],
                       y |-> element.position[2], s |-> text,
                       fontsize |-> IF coordinate THEN element.height * 24
                                    ELSE element.height * 40,
                       color |-> color] >>
          [] element.type = "spline" ->
               IF Len(element.control_points) > 1
               THEN << [draw |-> "plot", xs |-> Xs(element.control_points),
                        ys |-> Ys(element.control_points), color |-> color] >>
               ELSE <<>>

RECURSIVE DrawAll(_)
DrawAll(elements) ==
    IF elements = <<>> THEN <<>>
    ELSE DrawCalls(Head(elements)) \o DrawAll(Tail(elements))

DxfPathAlways(filename) == filename \o DotDxf

PngPath(filename) == IF EndsWith(filename, DotPng) THEN filename ELSE filename \o DotPng

DxfPath(filename) == IF EndsWith(filename, DotDxf) THEN filename ELSE filename \o DotDxf

png_filename(dxf_path) == Replace(dxf_path, DotDxf, DotPng)

\* save_png: the loop over drawing_elements, then plt.savefig, which writes
\* the file unless it raises.
save_png(filename, written, png_outcome) ==
    /\ drawn' = DrawAll(drawing_elements)
    /\ files' = IF png_outcome = "ok"
                THEN Append(written, [kind |-> "png", path |-> PngPath(filename)])
                ELSE written
    /\ raised' = (png_outcome # "ok")
    /\ clean' = (clean /\ png_outcome = "ok")

\* save: self.doc.saveas, which writes the file unless it raises, then
\* save_png when the save_png argument (with_png) is true.
save(filename, with_png, dxf_outcome, png_outcome) ==
    IF dxf_outcome # "ok"
    THEN /\ files' = <<>>
         /\ drawn' = <<>>
         /\ raised' = TRUE
         /\ clean' = FALSE
    ELSE IF with_png
         THEN save_png(png_filename(DxfPath(filename)),
                          << [kind |-> "dxf", path |-> DxfPath(filename)] >>,
                          png_outcome)
         ELSE /\ files' = << [kind |-> "dxf", path |-> DxfPath(filename)] >>
              /\ drawn' = <<>>
              /\ raised' = FALSE
              /\ clean' = clean

(***************************************************************************)
(* The arguments the calls are made with.                                  *)
(***************************************************************************)
LineColors == {WHITE, RED}
triangle_points == << <<0, 0>>, <<2, 0>>, <<1, 2>> >>
PolygonArgs == {<<>>, triangle_points, triangle_points \o << <<0, 0>> >>}
SplineArgs == {<< <<0, 0>> >>, << <<0, 0>>, <<1, 2>> >>}
TextArgs == {<<"A">>, <<"(", "1", ",", "2", ")">>}
StarCounts == {-1, 0, 1, 2}

Segments == {<<"a">>, <<"/">>, DotDxf, DotPng}

RECURSIVE NamesOf(_)
NamesOf(n) ==
    IF n = 0 THEN {<<>>}
    ELSE LET shorter == NamesOf(n - 1)
         IN  shorter \cup {s \o g : s \in shorter, g \in Segments}

AllNames == NamesOf(MaxSegs) \ {<<>>}
OneName == {<<"a">>}

NoLocals == [x |-> 0, y |-> 0, iter |-> 0]

\* The runs explored build the drawing first: primitives and stars, then at
\* most one grid, then any number of saves.
Built == call.op \in {"create_grid", "save", "save_png"}

\* Drawing calls are made between calls, while the drawing is being built
\* and fewer than MaxElems entities exist.
CanDraw ==
    /\ pc = "idle"
    /\ ~Built
    /\ Len(msp) < MaxElems

(***************************************************************************)
(* create_grid, one loop test per step.  pc is "v" in the loop of the      *)
(* vertical lines, "h" in the loop of the horizontal lines, "tx" and "ty"  *)
(* in the outer and the inner loop of the labels.                          *)
(***************************************************************************)
create_grid(width, height, spacing, origin, color, show_coordinates, text_height) ==
    /\ pc' = "v"
    /\ loc' = [x |-> origin[1], y |-> origin[2], iter |-> 0]
    /\ call' = [op |-> "create_grid", width |-> width, height |-> height,
                spacing |-> spacing, origin |-> origin, color |-> color,
                show_coordinates |-> show_coordinates,
                text_height |-> text_height,
                start |-> Len(drawing_elements)]
    /\ raised' = FALSE
    /\ UNCHANGED <<msp, drawing_elements, clean, files, drawn>>

XLimit == call.origin[1] + call.width
YLimit == call.origin[2] + call.height

\* A statement of the loop body raised: the call ends there.
GridAfter(outcome, next_pc, next_loc) ==
    IF outcome = "ok"
    THEN pc' = next_pc /\ loc' = next_loc
    ELSE pc' = "idle" /\ loc' = NoLocals

GridReturn ==
    /\ pc' = "idle"
    /\ loc' = NoLocals
    /\ UNCHANGED <<msp, drawing_elements, call, raised, clean, files, drawn>>

GridVerticalStrict(outcomes) ==
    /\ pc = "v"
    /\ IF loc.x < XLimit
       THEN \E outcome \in outcomes :
               /\ add_line(<<loc.x, call.origin[2]>>, <<loc.x, YLimit>>,
                              call.color, outcome)
               /\ GridAfter(outcome, "v",
                            [loc EXCEPT !.x = @ + call.spacing, !.iter = 1 - @])
               /\ UNCHANGED <<call, files, drawn>>
       ELSE /\ pc' = "h"
            /\ loc' = [loc EXCEPT !.y = call.origin[2]]
            /\ UNCHANGED <<msp, drawing_elements, call, raised, clean, files, drawn>>

GridVertical(outcomes) ==
    /\ pc = "v"
    /\ IF loc.x <= XLimit
       THEN \E outcome \in outcomes :
               /\ add_line(<<loc.x, call.origin[2]>>, <<loc.x, YLimit>>,
                              call.color, outcome)
               /\ GridAfter(outcome, "v",
                            [loc EXCEPT !.x = @ + call.spacing, !.iter = 1 - @])
               /\ UNCHANGED <<call, files, drawn>>
       ELSE /\ pc' = "h"
            /\ loc' = [loc EXCEPT !.y = call.origin[2]]
            /\ UNCHANGED <<msp, drawing_elements, call, raised, clean, files, drawn>>

GridHorizontal(outcomes) ==
    /\ pc = "h"
    /\ IF loc.y <= YLimit
       THEN \E outcome \in outcomes :
               /\ add_line(<<call.origin[1], loc.y>>, <<XLimit, loc.y>>,
                              call.color, outcome)
               /\ GridAfter(outcome, "h",
                            [loc EXCEPT !.y = @ + call.spacing, !.iter = 1 - @])
               /\ UNCHANGED <<call, files, drawn>>
       ELSE IF call.show_coordinates
            THEN /\ pc' = "tx"
                 /\ loc' = [loc EXCEPT !.x = call.origin[1]]
                 /\ UNCHANGED <<msp, drawing_elements, call, raised, clean,
                                files, drawn>>
            ELSE GridReturn

GridLabelColumn ==
    /\ pc = "tx"
    /\ IF loc.x <= XLimit
       THEN /\ pc' = "ty"
            /\ loc' = [loc EXCEPT !.y = call.origin[2]]
            /\ UNCHANGED <<msp, drawing_elements, call, raised, clean, files, drawn>>
       ELSE GridReturn

LabelFitsAlways(x, y) == TRUE

\* text_x <= x_origin + width and text_y <= y_origin + height, with
\* text_x = x + spacing * 0.05 and text_y = y + spacing * 0.05, in twentieths.
LabelFits(x, y) ==
    /\ 20 * x + call.spacing <= 20 * XLimit
    /\ 20 * y + call.spacing <= 20 * YLimit

coord_text(x, y) == <<"(">> \o FormatG(x) \o <<",">> \o FormatG(y) \o <<")">>

GridLabel(outcomes) ==
    /\ pc = "ty"
    /\ IF loc.y <= YLimit
       THEN IF LabelFits(loc.x, loc.y)
            THEN \E outcome \in outcomes \ {"color"} :
                    /\ add_text(coord_text(loc.x, loc.y),
                                   <<20 * loc.x + call.spacing,
                                     20 * loc.y + call.spacing>>,
                                   call.text_height, RED, outcome)
                    /\ GridAfter(outcome, "ty",
                                 [loc EXCEPT !.y = @ + call.spacing, !.iter = 1 - @])
                    /\ UNCHANGED <<call, files, drawn>>
            ELSE /\ pc' = "ty"
                 /\ loc' = [loc EXCEPT !.y = @ + call.spacing, !.iter = 1 - @]
                 /\ UNCHANGED <<msp, drawing_elements, call, raised, clean,
                                files, drawn>>
       ELSE /\ pc' = "tx"
            /\ loc' = [loc EXCEPT !.x = @ + call.spacing]
            /\ UNCHANGED <<msp, drawing_elements, call, raised, clean, files, drawn>>

(***************************************************************************)
(* The calls of the methods, with their arguments drawn from the sets      *)
(* above.                                                                  *)
(***************************************************************************)
AddLineCall(outcomes) ==
    \E color \in LineColors, outcome \in outcomes :
        /\ CanDraw
        /\ add_line(<<0, 0>>, <<1, 1>>, color, outcome)
        /\ call' = [op |-> "add_line"]
        /\ UNCHANGED <<pc, loc, files, drawn>>

AddCircleCall(outcomes) ==
    \E outcome \in outcomes :
        /\ CanDraw
        /\ add_circle(<<0, 0>>, 1, WHITE, outcome)
        /\ call' = [op |-> "add_circle"]
        /\ UNCHANGED <<pc, loc, files, drawn>>

AddRectangleCall(outcomes) ==
    \E outcome \in outcomes :
        /\ CanDraw
        /\ add_rectangle(<<2, 0>>, <<0, 1>>, WHITE, outcome)
        /\ call' = [op |-> "add_rectangle"]
        /\ UNCHANGED <<pc, loc, files, drawn>>

AddPolygonCall(outcomes) ==
    \E points \in PolygonArgs, closed \in BOOLEAN, outcome \in outcomes :
        /\ CanDraw
        /\ add_polygon(points, closed, WHITE, outcome)
        /\ call' = [op |-> "add_polygon"]
        /\ UNCHANGED <<pc, loc, files, drawn>>

AddArcCall(outcomes) ==
    \E outcome \in outcomes :
        /\ CanDraw
        /\ add_arc(<<0, 0>>, 1, 0, 180, WHITE, outcome)
        /\ call' = [op |-> "add_arc"]
        /\ UNCHANGED <<pc, loc, files, drawn>>

AddTextCall(outcomes) ==
    \E text \in TextArgs, outcome \in outcomes \ {"color"} :
        /\ CanDraw
        /\ add_text(text, <<0, 20>>, 10, WHITE, outcome)
        /\ call' = [op |-> "add_text"]
        /\ UNCHANGED <<pc, loc, files, drawn>>

AddSplineCall(outcomes) ==
    \E control_points \in SplineArgs, outcome \in outcomes :
        /\ CanDraw
        /\ add_spline(control_points, WHITE, outcome)
        /\ call' = [op |-> "add_spline"]
        /\ UNCHANGED <<pc, loc, files, drawn>>

CreateStarCall(outcomes) ==
    \E points \in StarCounts, outcome \in outcomes :
        /\ CanDraw
        /\ create_star(<<0, 0>>, 2, 1, points, WHITE, outcome)
        /\ call' = [op |-> "create_star", center |-> <<0, 0>>,
                    outer_radius |-> 2, inner_radius |-> 1, points |-> points]
        /\ UNCHANGED <<pc, loc, files, drawn>>

CreateGridCall(widths, heights, spacings, origins) ==
    \E width \in widths, height \in heights, spacing \in spacings,
       origin \in origins, show_coordinates \in BOOLEAN :
        /\ CanDraw
        /\ create_grid(width, height, spacing, origin, GRAY, show_coordinates, 8)

SaveCall(names) ==
    \E filename \in names, with_png \in BOOLEAN,
       dxf_outcome \in {"ok", "raise"}, png_outcome \in {"ok", "raise"} :
        /\ pc = "idle"
        /\ save(filename, with_png, dxf_outcome, png_outcome)
        /\ call' = [op |-> "save", filename |-> filename, save_png |-> with_png]
        /\ UNCHANGED <<msp, drawing_elements, pc, loc>>

SavePngCall(names) ==
    \E filename \in names, png_outcome \in {"ok", "raise"} :
        /\ pc = "idle"
        /\ save_png(filename, <<>>, png_outcome)
        /\ call' = [op |-> "save_png", filename |-> filename]
        /\ UNCHANGED <<msp, drawing_elements, pc, loc>>

Init ==
    /\ msp = <<>>
    /\ drawing_elements = <<>>
    /\ pc = "idle"
    /\ loc = NoLocals
    /\ call = [op |-> "init"]
    /\ raised = FALSE
    /\ clean = TRUE
    /\ files = <<>>
    /\ drawn = <<>>

Next ==
    \/ AddLineCall(Outcomes)
    \/ AddCircleCall(Outcomes)
    \/ AddRectangleCall(Outcomes)
    \/ AddPolygonCall(Outcomes)
    \/ AddArcCall(Outcomes)
    \/ AddTextCall(Outcomes)
    \/ AddSplineCall(Outcomes)
    \/ CreateStarCall(Outcomes)
    \/ CreateGridCall({1}, {1}, {1}, {<<0, 0>>})
    \/ GridVertical(Outcomes)
    \/ GridHorizontal(Outcomes)
    \/ GridLabelColumn
    \/ GridLabel(Outcomes)
    \/ SaveCall(OneName)
    \/ SavePngCall(OneName)

Spec == Init /\ [][Next]_vars

(***************************************************************************)
(* create_grid over a range of integer arguments, spacing >= 1.            *)
(***************************************************************************)
GridWidths == -1..MaxDim
GridHeights == -1..MaxDim
GridSpacings == 1..(MaxDim + 1)
GridOrigins == {<<0, 0>>, <<999999, -2>>}

GridNext ==
    \/ AddLineCall(Outcomes)
    \/ CreateGridCall(GridWidths, GridHeights, GridSpacings, GridOrigins)
    \/ GridVertical(Outcomes)
    \/ GridHorizontal(Outcomes)
    \/ GridLabelColumn
    \/ GridLabel(Outcomes)

GridSpec == Init /\ [][GridNext]_vars

(***************************************************************************)
(* create_grid with spacing 0 among its arguments.  A call that has begun  *)
(* keeps running: each of its steps is taken when it stays enabled.        *)
(***************************************************************************)
LiveSpacings == {0, 1}

GridStep ==
    \/ GridVertical(OkOnly)
    \/ GridHorizontal(OkOnly)
    \/ GridLabelColumn
    \/ GridLabel(OkOnly)

LiveNext ==
    \/ AddLineCall(OkOnly)
    \/ CreateGridCall(GridWidths, GridHeights, LiveSpacings, {<<0, 0>>})
    \/ GridStep

LiveSpec == Init /\ [][LiveNext]_vars /\ WF_vars(GridStep)

(***************************************************************************)
(* save and save_png over a range of file names.                           *)
(***************************************************************************)
PathNext ==
    \/ AddLineCall(OkOnly)
    \/ SaveCall(AllNames)
    \/ SavePngCall(AllNames)

PathSpec == Init /\ [][PathNext]_vars

(***************************************************************************)
(*                              Properties                                 *)
(***************************************************************************)
PrimitiveOps == {"add_line", "add_circle", "add_rectangle", "add_polygon",
                 "add_arc", "add_text", "add_spline", "create_star"}

DxfTypeOf(type) ==
    CASE type = "line" -> "LINE"
      [] type = "circle" -> "CIRCLE"
      [] type = "rectangle" -> "LWPOLYLINE"
      [] type = "polygon" -> "LWPOLYLINE"
      [] type = "arc" -> "ARC"
      [] type = "text" -> "TEXT"
      [] type = "spline" -> "SPLINE"

IsPrefix(s, t) == Len(s) <= Len(t) /\ SubSeq(t, 1, Len(s)) = s

Mirrors ==
    /\ Len(drawing_elements) = Len(msp)
    /\ \A i \in 1..Len(drawing_elements) :
          /\ msp[i].dxftype = DxfTypeOf(drawing_elements[i].type)
          /\ msp[i].color = drawing_elements[i].color

\* C1.  As long as every call has succeeded, drawing_elements and the
\* modelspace have the same length and the i-th record corresponds to the
\* i-th entity (line->LINE, circle->CIRCLE, rectangle and polygon->LWPOLYLINE,
\* arc->ARC, text->TEXT, spline->SPLINE) with the same colour; a successful
\* primitive call appends exactly one entity and one record, and no step
\* removes or reorders an entry of either list.
C1_RecordsMirrorEntities ==
    /\ [](clean => Mirrors)
    /\ [][clean' =>
            /\ IsPrefix(drawing_elements, drawing_elements')
            /\ IsPrefix(msp, msp')
            /\ Len(drawing_elements') <= Len(drawing_elements) + 1
            /\ Len(msp') <= Len(msp) + 1
            /\ (call'.op \in PrimitiveOps =>
                   /\ Len(drawing_elements') = Len(drawing_elements) + 1
                   /\ Len(msp') = Len(msp) + 1)]_vars

\* Two successful calls of different kinds have been made, in this order.
C1_Witness ==
    /\ clean
    /\ Len(drawing_elements) = 2
    /\ drawing_elements[1].type = "rectangle"
    /\ drawing_elements[2].type = "text"
    /\ msp[1].dxftype = "LWPOLYLINE"
    /\ msp[2].dxftype = "TEXT"

\* C9.  A primitive call or create_star that raises leaves the modelspace
\* and drawing_elements as they were.
C9_FailedCallChangesNothing ==
    [][(raised' /\ call'.op \in PrimitiveOps) =>
          (msp' = msp /\ drawing_elements' = drawing_elements)]_vars

Dist2(p, q) == (p[1] - q[1]) * (p[1] - q[1]) + (p[2] - q[2]) * (p[2] - q[2])

LastRecord == drawing_elements[Len(drawing_elements)]

\* C10.  For points >= 1 a successful create_star appends one closed polygon
\* record of 2 * points vertices, vertex i at distance outer_radius from the
\* center for even i and inner_radius for odd i, vertex 0 being the outer
\* point directly above the center, (cx, cy + outer_radius).
C10_StarStartsAtTop ==
    (call.op = "create_star" /\ ~raised /\ call.points >= 1) =>
        /\ LastRecord.type = "polygon"
        /\ LastRecord.closed
        /\ Len(LastRecord.points) = 2 * call.points
        /\ \A k \in 1..Len(LastRecord.points) :
              Dist2(LastRecord.points[k], call.center) =
                 IF (k - 1) % 2 = 0
                 THEN call.outer_radius * call.outer_radius
                 ELSE call.inner_radius * call.inner_radius
        /\ LastRecord.points[1] =
              <<call.center[1], call.center[2] + call.outer_radius>>

SaveOps == {"save", "save_png"}

\* The most recent call ran save_png's loop.
Rendered ==
    \/ call.op = "save_png"
    \/ call.op = "save" /\ call.save_png /\ files # <<>>

\* The draw call d is of the kind of the record and carries its geometry.
DrawMatches(record, d) ==
    CASE record.type = "line" ->
           /\ d.draw = "plot"
           /\ d.xs = <<record.start[1], record.end[1]>>
           /\ d.ys = <<record.start[2], record.end[2]>>
      [] record.type = "circle" ->
           /\ d.draw = "Circle"
           /\ d.center = record.center
           /\ d.radius = record.radius
      [] record.type = "rectangle" ->
           /\ d.draw = "Rectangle"
           /\ d.width >= 0
           /\ d.height >= 0
           /\ {d.xy[1], d.xy[1] + d.width} = {record.corner1[1], record.corner2[1]}
           /\ {d.xy[2], d.xy[2] + d.height} = {record.corner1[2], record.corner2[2]}
      [] record.type = "polygon" ->
           /\ d.draw = "Polygon"
           /\ d.xy = IF record.closed
                        /\ record.points[1] # record.points[Len(record.points)]
                     THEN Append(record.points, record.points[1])
                     ELSE record.points
      [] record.type = "arc" ->
           /\ d.draw = "Arc"
           /\ d.center = record.center
           /\ d.width = 2 * record.radius
           /\ d.height = 2 * record.radius
           /\ d.theta1 = record.start_angle
           /\ d.theta2 = record.end_angle
      [] record.type = "text" ->
           /\ d.draw = "text"
           /\ <<d.x, d.y>> = record.position
           /\ d.s = record.text
      [] record.type = "spline" ->
           /\ d.draw = "plot"
           /\ Len(d.xs) = Len(record.control_points)
           /\ Len(d.ys) = Len(record.control_points)
           /\ \A k \in 1..Len(record.control_points) :
                 <<d.xs[k], d.ys[k]>> = record.control_points[k]

\* C3 as stated.  save_png issues exactly one draw call for every record, of
\* the record's kind and geometry, in the order of the records.
C3_OneDrawPerRecord ==
    Rendered =>
        /\ Len(drawn) = Len(drawing_elements)
        /\ \A i \in 1..Len(drawing_elements) :
              i <= Len(drawn) /\ DrawMatches(drawing_elements[i], drawn[i])

Drawable(record) ==
    record.type = "spline" => Len(record.control_points) >= 2

\* C3, amended.  save_png issues exactly one draw call, of the record's kind
\* and with its geometry as arguments, for every record except a spline
\* record of fewer than two control points, for which it issues none; the
\* calls are in the order of the records; save and save_png leave
\* drawing_elements and the modelspace unchanged.
C3_OneDrawPerDrawableRecord ==
    /\ [](Rendered =>
            LET shown == SelectSeq(drawing_elements, Drawable)
            IN  /\ Len(drawn) = Len(shown)
                /\ \A i \in 1..Len(shown) : DrawMatches(shown[i], drawn[i]))
    /\ [][call'.op \in SaveOps =>
            (drawing_elements' = drawing_elements /\ msp' = msp)]_vars

\* A drawing of a one-point spline and a rectangle has been saved as a PNG:
\* one draw call was issued, for the rectangle.
C3_Witness ==
    /\ Rendered
    /\ Len(files) > 0
    /\ files[Len(files)].kind = "png"
    /\ Len(drawing_elements) = 2
    /\ drawing_elements[1].type = "spline"
    /\ Len(drawing_elements[1].control_points) = 1
    /\ drawing_elements[2].type = "rectangle"
    /\ Len(drawn) = 1
    /\ drawn[1].draw = "Rectangle"

\* The index in drawn of the draw call of record i.
DrawIndex(i) == Len(SelectSeq(SubSeq(drawing_elements, 1, i), Drawable))

\* C8.  The vertex sequence add_polygon forwards to the DXF polyline is points
\* with points[0] appended exactly when closed and points[0] != points[-1],
\* and the vertex sequence save_png draws for the polygon record is the one
\* written to the DXF document.
C8_PolygonDrawnAsWritten ==
    clean =>
        \A i \in 1..Len(drawing_elements) :
            drawing_elements[i].type = "polygon" =>
                LET record == drawing_elements[i]
                IN  /\ msp[i].vertices =
                          IF record.closed
                             /\ record.points[1] # record.points[Len(record.points)]
                          THEN Append(record.points, record.points[1])
                          ELSE record.points
                    /\ Rendered => drawn[DrawIndex(i)].path = msp[i].vertices

\* C2.  save writes the DXF file unless that write raises, to the given name
\* with '.dxf' appended exactly when the name does not end with it; a PNG is
\* written only if save_png is true and, when the call returns, if save_png
\* is true; the PNG is written after the DXF file, and none is written when
\* the DXF write raised.
C2_SaveWritesDxfThenPng ==
    call.op = "save" =>
        LET suffixed == EndsWith(call.filename, DotDxf)
            path == IF suffixed THEN call.filename ELSE call.filename \o DotDxf
        IN  /\ EndsWith(path, DotDxf)
            /\ files = <<>> => raised
            /\ files # <<>> => files[1] = [kind |-> "dxf", path |-> path]
            /\ Len(files) <= 2
            /\ \A i \in 1..Len(files) :
                  files[i].kind = "png" => (i = 2 /\ call.save_png)
            /\ (call.save_png /\ ~raised) =>
                  (Len(files) = 2 /\ files[2].kind = "png")
            /\ ~call.save_png => Len(files) <= 1

\* save("/a", save_png=True) has returned: both files were written.
C2_Witness ==
    /\ call.op = "save"
    /\ call.filename = <<"/", "a">>
    /\ call.save_png
    /\ ~raised
    /\ files = << [kind |-> "dxf", path |-> <<"/", "a">> \o DotDxf],
                  [kind |-> "png", path |-> <<"/", "a">> \o DotPng] >>

\* C5.  The PNG path of save(filename, save_png=True) is the DXF path with
\* only its final '.dxf' replaced by '.png'.
C5_PngBesideDxf ==
    (call.op = "save" /\ Len(files) = 2) =>
        files[2].path =
            SubSeq(files[1].path, 1, Len(files[1].path) - Len(DotDxf)) \o DotPng

\* C4.  Every call of create_grid terminates.
C4_GridTerminates == (pc # "idle") ~> (pc = "idle")

GridDone == pc = "idle" /\ call.op = "create_grid" /\ ~raised

VerticalCount == IF call.width >= 0 THEN call.width \div call.spacing + 1 ELSE 0
HorizontalCount == IF call.height >= 0 THEN call.height \div call.spacing + 1 ELSE 0

InRectangle(p) ==
    /\ call.origin[1] <= p[1]
    /\ p[1] <= call.origin[1] + call.width
    /\ call.origin[2] <= p[2]
    /\ p[2] <= call.origin[2] + call.height

\* C6.  For integer arguments with width >= 0, height >= 0 and spacing > 0,
\* create_grid appends floor(width/spacing)+1 vertical line records, then
\* floor(height/spacing)+1 horizontal line records, then only labels; the
\* k-th vertical line runs from (x0+k*spacing, y0) to (x0+k*spacing,
\* y0+height), the k-th horizontal line from (x0, y0+k*spacing) to
\* (x0+width, y0+k*spacing), each in the colour of the call, and no endpoint
\* lies outside [x0, x0+width] x [y0, y0+height].
C6_GridLines ==
    (GridDone /\ call.width >= 0 /\ call.height >= 0 /\ call.spacing > 0) =>
        LET x0 == call.origin[1]
            y0 == call.origin[2]
            first == call.start
            nv == call.width \div call.spacing + 1
            nh == call.height \div call.spacing + 1
        IN  /\ Len(drawing_elements) >= first + nv + nh
            /\ \A k \in 0..(nv - 1) :
                  drawing_elements[first + 1 + k] =
                      [type |-> "line",
                       start |-> <<x0 + k * call.spacing, y0>>,
                       end |-> <<x0 + k * call.spacing, y0 + call.height>>,
                       color |-> call.color]
            /\ \A k \in 0..(nh - 1) :
                  drawing_elements[first + nv + 1 + k] =
                      [type |-> "line",
                       start |-> <<x0, y0 + k * call.spacing>>,
                       end |-> <<x0 + call.width, y0 + k * call.spacing>>,
                       color |-> call.color]
            /\ \A i \in (first + 1)..(first + nv + nh) :
                  /\ InRectangle(drawing_elements[i].start)
                  /\ InRectangle(drawing_elements[i].end)
            /\ \A i \in (first + nv + nh + 1)..Len(drawing_elements) :
                  drawing_elements[i].type = "text"

\* create_grid(2, 1, 2, origin=(0, 0)) has returned on a drawing of one line:
\* two vertical lines, one horizontal line, then labels.
C6_Witness ==
    /\ GridDone
    /\ call.width = 2
    /\ call.height = 1
    /\ call.spacing = 2
    /\ call.origin = <<0, 0>>
    /\ call.start = 1
    /\ Len(drawing_elements) > 4
    /\ drawing_elements[3].start = <<2, 0>>
    /\ drawing_elements[3].end = <<2, 1>>

IsText(record) == record.type = "text"

\* The text records create_grid added.
GridLabels ==
    SelectSeq(SubSeq(drawing_elements, call.start + 1, Len(drawing_elements)), IsText)

SignedDecimal(v) == IF v < 0 THEN <<"-">> \o Decimal(-v) ELSE Decimal(v)

PlainLabel(x, y) ==
    <<"(">> \o SignedDecimal(x) \o <<",">> \o SignedDecimal(y) \o <<")">>

\* The intersections of the lines create_grid drew.
Intersections ==
    {<<call.origin[1] + i * call.spacing, call.origin[2] + j * call.spacing>> :
        i \in 0..(VerticalCount - 1), j \in 0..(HorizontalCount - 1)}

\* C7 as stated.  With show_coordinates, create_grid adds exactly one text
\* record '(x,y)' for every intersection of the lines it drew; without, none.
C7_LabelAtEveryIntersection ==
    GridDone =>
        IF call.show_coordinates
        THEN /\ Len(GridLabels) = Cardinality(Intersections)
             /\ \A p \in Intersections :
                   Cardinality({n \in 1..Len(GridLabels) :
                                   GridLabels[n].text = PlainLabel(p[1], p[2])}) = 1
        ELSE GridLabels = <<>>

\* The intersections whose label anchor (x + spacing/20, y + spacing/20) lies
\* within the grid rectangle.
Labelled ==
    {p \in Intersections :
        /\ 20 * (call.origin[1] + call.width - p[1]) >= call.spacing
        /\ 20 * (call.origin[2] + call.height - p[2]) >= call.spacing}

\* C7, amended.  With show_coordinates, create_grid adds exactly one text
\* record, anchored at (x + 0.05*spacing, y + 0.05*spacing), for every
\* intersection (x, y) of the lines it drew whose anchor lies within the grid
\* rectangle, and none for any other intersection; the text is '(x,y)' in
\* plain decimal when both coordinates are below 10^6 in absolute value.
\* Without show_coordinates it adds no text record.
C7_LabelWhereAnchorFits ==
    GridDone =>
        IF call.show_coordinates
        THEN /\ Len(GridLabels) = Cardinality(Labelled)
             /\ \A p \in Labelled :
                   LET at == {n \in 1..Len(GridLabels) :
                                 GridLabels[n].position =
                                     <<20 * p[1] + call.spacing,
                                       20 * p[2] + call.spacing>>}
                   IN  /\ Cardinality(at) = 1
                       /\ \A n \in at :
                             (Abs(p[1]) < 1000000 /\ Abs(p[2]) < 1000000) =>
                                 GridLabels[n].text = PlainLabel(p[1], p[2])
        ELSE GridLabels = <<>>

\* create_grid(2, 2, 1, origin=(0, 0)) with labels has returned: nine
\* intersections, four of them labelled.
C7_Witness ==
    /\ GridDone
    /\ call.show_coordinates
    /\ call.width = 2
    /\ call.height = 2
    /\ call.spacing = 1
    /\ call.origin = <<0, 0>>
    /\ Cardinality(Intersections) = 9
    /\ Len(GridLabels) = 4
    /\ GridLabels[4].text = <<"(", "1", ",", "1", ")">>

====
